---- MODULE Spec2Model ----
(***************************************************************************)
(* chaos-dl (src/main.go): the download/extract pipeline of                *)
(* parallelDownload with downloadZip and unzip, and the search pipeline of *)
(* parallelQuery with countMatches.                                        *)
(*                                                                         *)
(* Goroutines of one pool run the same closure and have no identity, so a  *)
(* pool is a bag of the goroutines' local states.  Channels are sequences  *)
(* with a capacity and a closed flag.  The file system is the set of       *)
(* temporary archives and the corpus (one subdomains.txt per name).        *)
(*                                                                         *)
(* In the download pipeline every call whose error the code tests can     *)
(* fail (http.Get, os.CreateTemp, io.Copy, zip.OpenReader, os.Create,      *)
(* f.Open); the calls whose result it drops (os.MkdirAll, os.Remove,       *)
(* writer.Flush, Close) do what they are called for.  In the query a file  *)
(* of the corpus can be opened as long as it exists.                       *)
(***************************************************************************)
EXTENDS Integers, Sequences, FiniteSets, Bags, TLC

\* ------------------------------------------------------------------ bounds
MaxPrograms == 2     \* longest index (list of programs) tried
MaxWorkers  == 2     \* largest -w tried
MaxMembers  == 2     \* longest archive tried in the extraction specification

\* ------------------------------------------------------------ environment
\* Program (type Program): Name, URL and Count as decoded from index.json.
Prog(n, u, c) == [Name |-> n, URL |-> u, Count |-> c]

\* The programs an index is drawn from (an index may list a program twice):
\* two names with their archives, an empty URL, a zero and a negative count.
ProgramUniverse ==
    { Prog("a", "u1", 1), Prog("b", "u2", 2),
      Prog("b", "", 1), Prog("a", "u1", 0), Prog("b", "u2", -1) }

Names == {"a", "b", "c"}
URLs  == {"u1", "u2"}

RECURSIVE SeqsUpTo(_, _)
SeqsUpTo(S, n) ==
    IF n = 0 THEN { <<>> }
    ELSE LET shorter == SeqsUpTo(S, n - 1)
         IN  shorter \cup { Append(s, x) : s \in { t \in shorter : Len(t) = n - 1 }, x \in S }

\* strings.ToLower on the letters the model uses; every other string is its
\* own lower case.
ToLower(s) ==
    CASE s = "A" -> "a"
      [] s = "B" -> "b"
      [] s = "X" -> "x"
      [] OTHER   -> s

\* strings.EqualFold on one-letter names.
EqualFold(s, t) == ToLower(s) = ToLower(t)

\* The -dl arguments tried: everything, a name in another case, a name, and
\* a name no index holds.
Targets == {"all", "A", "b", "zz"}

\* A zip member: its name as <<stem, extension, ...>>, whether it is a
\* directory entry, and its decompressed bytes.
Member(nm, d, bytes) == [name |-> nm, dir |-> d, data |-> bytes]

MemberUniverse ==
    { Member(<<"a", ".txt">>, FALSE, <<"x", "\n">>),
      Member(<<"b", ".txt">>, FALSE, <<"y">>),
      Member(<<"r", ".md">>, FALSE, <<"q">>),
      Member(<<"d", ".txt">>, TRUE, <<>>),
      Member(<<"c", ".txt", ".bak">>, FALSE, <<"z">>) }

\* What the two URLs serve in the pipeline specification.
FixedRemote ==
    [u \in URLs |->
        IF u = "u1"
        THEN << Member(<<"a", ".txt">>, FALSE, <<"x">>) >>
        ELSE << Member(<<"r", ".md">>, FALSE, <<"q">>),
                Member(<<"b", ".txt">>, FALSE, <<"y">>) >>]

NoFile == [exists |-> FALSE, data |-> <<>>]
File(bytes) == [exists |-> TRUE, data |-> bytes]

NoProgram == Prog("", "", 0)
NoJob == [idx |-> 0, program |-> NoProgram, zipPath |-> 0]

VARIABLES
    \* inputs of main
    programs, target, workers, remote,
    \* parallelDownload's locals
    pc, toDownload, successCount, failCount, result,
    downloadJobs, jobsClosed, downloadResults, resultsClosed,
    unzipJobs, unzipClosed,
    dlWorkers, dlWg, feeder, closer, uzWorkers, unzipWg,
    \* file system and terminal
    tmpFiles, tmpMade, disk, log,
    \* history: what each entity's fetch and extraction did, the run number,
    \* the corpus before the run
    fetched, outcome, run, prevDisk,
    \* parallelQuery: its argument and locals, the terminal
    term, qpc, domain, files, fileJobs, fileJobsClosed, results, queryClosed,
    qChans, qWorkers, wg, qFeeder, qCloser, best, stdout,
    \* history: the results the reducer has received, in order
    reduced

inputVars  == <<programs, target, workers, remote>>
driverVars == <<pc, toDownload, successCount, failCount, result>>
chanVars   == <<downloadJobs, jobsClosed, downloadResults, resultsClosed,
                unzipJobs, unzipClosed>>
taskVars   == <<dlWorkers, dlWg, feeder, closer, uzWorkers, unzipWg>>
fsVars     == <<tmpFiles, tmpMade, disk, log>>
histVars   == <<fetched, outcome, run, prevDisk>>
queryVars  == <<term, qpc, domain, files, fileJobs, fileJobsClosed, results,
                queryClosed, qChans, qWorkers, wg, qFeeder, qCloser, best, stdout,
                reduced>>
vars == <<inputVars, driverVars, chanVars, taskVars, fsVars, histVars, queryVars>>


\* ----------------------------------------------------- pure parts of the code
Min(S) == CHOOSE x \in S : \A y \in S : x <= y

\* n copies of local state st, as a bag.
Copies(st, n) == IF n > 0 THEN [x \in {st} |-> n] ELSE EmptyBag

\* The bag b with one goroutine moved from local state old to local state new.
Move(b, old, new) == (b (-) SetToBag({old})) (+) SetToBag({new})

\* main.go:119-129: the programs to download, or <<>> when the named target
\* is in no entry of the index (the caller then exits).
ResolveTargets(list, t) ==
    IF t = "all" THEN list
    ELSE LET hits == { i \in 1..Len(list) : EqualFold(list[i].Name, t) }
         IN  IF hits = {} THEN <<>> ELSE << list[Min(hits)] >>

\* main.go:130: the named target was not found.
NotFound(list, t) == t # "all" /\ Len(ResolveTargets(list, t)) = 0

\* Eligible with the count compared by >= instead of >.
EligibleFromZero(p) == p.URL # "" /\ p.Count >= 0

\* main.go:160: the feeder's filter.
Eligible(p) == p.URL # "" /\ p.Count > 0

\* The first index >= i of an entry the feeder sends, 0 when there is none.
NextEligible(list, i) ==
    LET rest == { j \in i..Len(list) : Eligible(list[j]) }
    IN  IF rest = {} THEN 0 ELSE Min(rest)

\* main.go:141-142: capacity of downloadJobs and of downloadResults.
JobsCap(list) == Len(list)

\* main.go:174: capacity of unzipJobs.
UnzipCap(w) == w * 2

\* os.CreateTemp: a name no existing file has.
NewTemp(temps) == Min((1..(Cardinality(temps) + 1)) \ temps)

\* main.go:213-238: what one call of downloadZip can do; id is the name
\* os.CreateTemp would pick.  made: a temp file was created; left: the temp
\* files of this call that exist when it returns.  The error is "early" for
\* the three returns before a temp file exists (http.Get, the status,
\* os.CreateTemp) and "copy" for the failed io.Copy.
DownloadZip(p, id) ==
    { [err |-> "early", zipPath |-> 0,  made |-> 0, left |-> {}],
      [err |-> "copy",  zipPath |-> 0,  made |-> 1, left |-> {}],
      [err |-> "nil",   zipPath |-> id, made |-> 1, left |-> {id}] }

\* main.go:199-204: the counters after one result.
Tally(s, f, err) ==
    IF err # "nil" THEN [success |-> s, fail |-> f + 1]
    ELSE [success |-> s + 1, fail |-> f]

\* strings.HasSuffix(name, ".txt") on a name given as its parts.
HasSuffixTxt(nm) == Len(nm) > 0 /\ nm[Len(nm)] = ".txt"

\* main.go:259: the members unzip copies.
IsText(m) == ~m.dir /\ HasSuffixTxt(m.name)

\* The first index >= i of a member unzip copies, 0 when there is none.
NextText(archive, i) ==
    LET rest == { j \in i..Len(archive) : IsText(archive[j]) }
    IN  IF rest = {} THEN 0 ELSE Min(rest)

\* main.go:241-252: how unzip can start: zip.OpenReader fails (always when
\* the archive file is missing), os.Create fails, or both succeed.
UnzipOpen(zipExists) ==
    {"error"} \cup (IF zipExists THEN {"nil"} ELSE {})

\* Create without the truncation: an existing file keeps its bytes.
CreateNoTruncate(f) == IF f.exists THEN f ELSE File(<<>>)

\* main.go:249: os.Create truncates the file (or creates it empty).
Create(f) == File(<<>>)

RECURSIVE Zeros(_)
Zeros(k) == IF k <= 0 THEN <<>> ELSE <<"NUL">> \o Zeros(k - 1)

\* A write of bytes at offset off of an open file (one descriptor per
\* os.Create, each with its own offset; a write past the end leaves a hole of
\* zero bytes).
WriteAt(f, off, bytes) ==
    LET old    == f.data
        padded == IF Len(old) < off THEN old \o Zeros(off - Len(old)) ELSE old
    IN  IF bytes = <<>> THEN f
        ELSE File(SubSeq(padded, 1, off) \o bytes
                  \o SubSeq(padded, off + Len(bytes) + 1, Len(padded)))

\* main.go:263-272: f.Open and io.Copy of one member with bytes d: n bytes
\* reach the file and the copy succeeds (all of them) or fails (f.Open
\* failed: none; io.Copy failed: any number, the error may come at the end).
CopyOutcomes(d) ==
    { [n |-> Len(d), err |-> "nil"] }
    \cup { [n |-> k, err |-> "error"] : k \in 0..Len(d) }

\* RemoveZip with the os.Remove skipped when unzip failed.
RemoveZipUnlessError(temps, path, err) ==
    IF err # "nil" THEN temps ELSE temps \ {path}

\* main.go:191: the temp files after the worker's os.Remove; err is what
\* unzip returned.
RemoveZip(temps, path, err) == temps \ {path}

\* main.go:186-190: the worker's message for what unzip returned.
UnzipMessage(job, err) ==
    [kind |-> IF err # "nil" THEN "unzip-error" ELSE "ok", idx |-> job.idx,
     name |-> job.program.Name]

\* main.go:200: the driver's message for a failed download.
DownloadMessage(r) ==
    [kind |-> "download-error", idx |-> r.idx, name |-> r.program.Name]

\* ---------------------------------------------- pure parts of parallelQuery
\* main.go:357: the scanner's token ceiling (1024*1024 in the source, scaled
\* to the line lengths the model uses).
ScanCeiling == 3

\* strings.ToLower on a string given as its bytes.
LowerSeq(s) == [i \in 1..Len(s) |-> ToLower(s[i])]

\* strings.Contains.
Contains(s, sub) ==
    \E i \in 0..(Len(s) - Len(sub)) : SubSeq(s, i + 1, i + Len(sub)) = sub

\* The position of the first newline of d, 0 when d has none.
FirstNewline(d) ==
    LET at == { i \in 1..Len(d) : d[i] = "\n" }
    IN  IF at = {} THEN 0 ELSE Min(at)

\* bufio.ScanLines drops one trailing carriage return of a line.
DropCR(l) ==
    IF Len(l) > 0 /\ l[Len(l)] = "\r" THEN SubSeq(l, 1, Len(l) - 1) ELSE l

RECURSIVE Tokens(_)
\* main.go:355-359: the lines scanner.Scan returns for a file with bytes d.
\* A last line without a newline is a line; Scan stops (bufio.ErrTooLong) at
\* the first line of ScanCeiling bytes or more, and at the end of the file.
Tokens(d) ==
    IF d = <<>> THEN <<>>
    ELSE LET k == FirstNewline(d)
             n == IF k = 0 THEN Len(d) ELSE k - 1
         IN  IF n >= ScanCeiling THEN <<>>
             ELSE << DropCR(SubSeq(d, 1, n)) >>
                  \o (IF k = 0 THEN <<>> ELSE Tokens(SubSeq(d, k + 1, Len(d))))

\* main.go:347-365: the count countMatches returns for file f and the
\* lowered term dom; 0 when the file cannot be opened.
countMatches(f, dom) ==
    IF ~f.exists THEN 0
    ELSE LET lines == Tokens(f.data)
         IN  Cardinality({ i \in 1..Len(lines) : Contains(LowerSeq(lines[i]), dom) })

\* filepath.Walk visits the directories in lexical order.
WalkOrder == <<"a", "b", "c">>

\* main.go:281-287: the subdomains.txt files the walk finds on corpus d.
Walk(d) ==
    LET Found(n) == d[n].exists
    IN  SelectSeq(WalkOrder, Found)

\* The empty-corpus test that never holds.
EmptyCorpusNever(fs) == FALSE

\* main.go:289: the walk found no file.
EmptyCorpus(fs) == Len(fs) = 0

\* The comparison that lets every result replace the best one.
BetterAlways(r, b) == TRUE

\* A comparison that lets an equal count win.
BetterOrEqual(r, b) == r.matchCount >= b.matchCount

\* main.go:329: the reducer's comparison.
Better(r, b) == r.matchCount > b.matchCount

\* main.go:328-332: one step of the reduction.
Reduce(b, r) == IF Better(r, b) THEN r ELSE b


\* -------------------------------------------------------------- initial state
IdleDl == [pc |-> "recv", job |-> NoJob]
IdleUz == [pc |-> "recv", job |-> NoJob, member |-> 0, off |-> 0, wrote |-> <<>>]
NoOutcome == [done |-> FALSE, created |-> FALSE, err |-> "nil", wrote |-> <<>>]

\* The state of parallelDownload before its first statement.
PipelineInit ==
    /\ pc = "resolve"
    /\ toDownload = <<>>
    /\ successCount = 0 /\ failCount = 0
    /\ result = NoJob
    /\ downloadJobs = <<>> /\ jobsClosed = FALSE
    /\ downloadResults = <<>> /\ resultsClosed = FALSE
    /\ unzipJobs = <<>> /\ unzipClosed = FALSE
    /\ dlWorkers = EmptyBag /\ dlWg = 0
    /\ feeder = [pc |-> "idle", i |-> 1]
    /\ closer = "idle"
    /\ uzWorkers = EmptyBag /\ unzipWg = 0
    /\ tmpFiles = {} /\ tmpMade = 0
    /\ log = {}
    /\ fetched = [i \in 1..Len(programs) |-> "none"]
    /\ outcome = [i \in 1..Len(programs) |-> NoOutcome]

NoResult == [file |-> "", matchCount |-> 0]

\* parallelQuery is not running.
QueryIdle ==
    /\ term = <<>> /\ qpc = "idle" /\ domain = <<>>
    /\ files = <<>>
    /\ fileJobs = <<>> /\ fileJobsClosed = FALSE
    /\ results = <<>> /\ queryClosed = FALSE
    /\ qChans = {}
    /\ qWorkers = EmptyBag /\ wg = 0
    /\ qFeeder = [pc |-> "idle", i |-> 1]
    /\ qCloser = "idle"
    /\ best = NoResult
    /\ stdout = <<>>
    /\ reduced = <<>>

\* -w as the operator may give it: negative, zero, or a pool size.
WorkerCounts == (-1)..MaxWorkers

\* One run over any index of at most MaxPrograms programs, an empty corpus.
Init ==
    /\ programs \in SeqsUpTo(ProgramUniverse, MaxPrograms)
    /\ target \in Targets
    /\ workers \in WorkerCounts
    /\ remote = FixedRemote
    /\ disk = [n \in Names |-> NoFile]
    /\ run = 1
    /\ prevDisk = disk
    /\ PipelineInit
    /\ QueryIdle


\* ------------------------------------------------------ parallelDownload
\* The process runs: main has not returned, exited or panicked.
Running == pc \in {"stageB", "collect", "send", "wait"}

\* main.go:119-134: resolve the target; os.Exit(1) when it is not found.
Resolve ==
    /\ pc = "resolve"
    /\ IF NotFound(programs, target)
       THEN /\ pc' = "exited"
            /\ log' = log \cup {[kind |-> "not-found", idx |-> 0, name |-> target]}
            /\ UNCHANGED toDownload
       ELSE /\ pc' = "stageA"
            /\ toDownload' = ResolveTargets(programs, target)
            /\ UNCHANGED log
    /\ UNCHANGED <<queryVars, inputVars, successCount, failCount, result, chanVars,
                   taskVars, tmpFiles, tmpMade, disk, histVars>>

\* main.go:136-171: make the two channels, start the download workers, the
\* feeder and the closer.
StartStageA ==
    /\ pc = "stageA"
    /\ pc' = "stageB"
    /\ dlWorkers' = Copies(IdleDl, workers)
    /\ dlWg' = IF workers > 0 THEN workers ELSE 0
    /\ feeder' = [pc |-> "run", i |-> 1]
    /\ closer' = "wait"
    /\ UNCHANGED <<queryVars, inputVars, toDownload, successCount, failCount, result,
                   chanVars, uzWorkers, unzipWg, fsVars, histVars>>

\* main.go:174-194: make unzipJobs (a negative capacity panics) and start the
\* unzip workers.
StartStageB ==
    /\ pc = "stageB"
    /\ IF UnzipCap(workers) < 0
       THEN /\ pc' = "panicked"
            /\ UNCHANGED <<uzWorkers, unzipWg>>
       ELSE /\ pc' = "collect"
            /\ uzWorkers' = Copies(IdleUz, workers)
            /\ unzipWg' = workers
    /\ UNCHANGED <<queryVars, inputVars, toDownload, successCount, failCount, result,
                   chanVars, dlWorkers, dlWg, feeder, closer, fsVars, histVars>>

\* main.go:159-163: the feeder skips to the next eligible program and sends it.
FeederSend ==
    /\ Running /\ feeder.pc = "run"
    /\ NextEligible(toDownload, feeder.i) # 0
    /\ Len(downloadJobs) < JobsCap(toDownload)
    /\ LET j == NextEligible(toDownload, feeder.i)
       IN  /\ downloadJobs' = Append(downloadJobs,
                                [idx |-> j, program |-> toDownload[j], zipPath |-> 0])
           /\ feeder' = [feeder EXCEPT !.i = j + 1]
    /\ UNCHANGED <<queryVars, inputVars, driverVars, jobsClosed, downloadResults,
                   resultsClosed, unzipJobs, unzipClosed, dlWorkers, dlWg,
                   closer, uzWorkers, unzipWg, fsVars, histVars>>

\* main.go:164: no eligible program is left; close(downloadJobs).
FeederClose ==
    /\ Running /\ feeder.pc = "run"
    /\ NextEligible(toDownload, feeder.i) = 0
    /\ jobsClosed' = TRUE
    /\ feeder' = [pc |-> "done", i |-> Len(toDownload) + 1]
    /\ UNCHANGED <<queryVars, inputVars, driverVars, downloadJobs, downloadResults,
                   resultsClosed, unzipJobs, unzipClosed, dlWorkers, dlWg,
                   closer, uzWorkers, unzipWg, fsVars, histVars>>

\* main.go:150: a download worker receives a job.
\* A receive that leaves the job on the channel.
DlRecvKeep ==
    /\ Running /\ BagIn(IdleDl, dlWorkers)
    /\ downloadJobs # <<>>
    /\ dlWorkers' = Move(dlWorkers, IdleDl, [pc |-> "fetch", job |-> Head(downloadJobs)])
    /\ UNCHANGED <<queryVars, inputVars, driverVars, downloadJobs, jobsClosed,
                   downloadResults, resultsClosed, unzipJobs, unzipClosed, dlWg,
                   feeder, closer, uzWorkers, unzipWg, fsVars, histVars>>

DlRecv ==
    /\ Running /\ BagIn(IdleDl, dlWorkers)
    /\ downloadJobs # <<>>
    /\ dlWorkers' = Move(dlWorkers, IdleDl, [pc |-> "fetch", job |-> Head(downloadJobs)])
    /\ downloadJobs' = Tail(downloadJobs)
    /\ UNCHANGED <<queryVars, inputVars, driverVars, jobsClosed, downloadResults,
                   resultsClosed, unzipJobs, unzipClosed, dlWg, feeder, closer,
                   uzWorkers, unzipWg, fsVars, histVars>>

\* main.go:151-152: downloadZip, then the result is sent.
DlFetch ==
    /\ Running
    /\ \E w \in BagToSet(dlWorkers) :
        /\ w.pc = "fetch"
        /\ Len(downloadResults) < JobsCap(toDownload)
        /\ \E o \in DownloadZip(w.job.program, NewTemp(tmpFiles)) :
            /\ tmpFiles' = tmpFiles \cup o.left
            /\ tmpMade' = tmpMade + o.made
            /\ downloadResults' = Append(downloadResults,
                    [idx |-> w.job.idx, program |-> w.job.program,
                     zipPath |-> o.zipPath,
                     err |-> IF o.err = "nil" THEN "nil" ELSE "error"])
            /\ fetched' = [fetched EXCEPT ![w.job.idx] =
                              IF o.err = "nil" THEN "ok" ELSE "err"]
        /\ dlWorkers' = Move(dlWorkers, w, IdleDl)
    /\ UNCHANGED <<queryVars, inputVars, driverVars, downloadJobs, jobsClosed,
                   resultsClosed, unzipJobs, unzipClosed, dlWg, feeder, closer,
                   uzWorkers, unzipWg, disk, log, outcome, run, prevDisk>>

\* main.go:149-150: downloadJobs is closed and drained; the worker returns.
DlExit ==
    /\ Running /\ BagIn(IdleDl, dlWorkers)
    /\ downloadJobs = <<>> /\ jobsClosed
    /\ dlWorkers' = dlWorkers (-) SetToBag({IdleDl})
    /\ dlWg' = dlWg - 1
    /\ UNCHANGED <<queryVars, inputVars, driverVars, chanVars, feeder, closer, uzWorkers,
                   unzipWg, fsVars, histVars>>

\* main.go:168-171: dlWg.Wait returns; close(downloadResults).
CloserClose ==
    /\ Running /\ closer = "wait"
    /\ dlWg = 0
    /\ resultsClosed' = TRUE
    /\ closer' = "done"
    /\ UNCHANGED <<queryVars, inputVars, driverVars, downloadJobs, jobsClosed,
                   downloadResults, unzipJobs, unzipClosed, dlWorkers, dlWg,
                   feeder, uzWorkers, unzipWg, fsVars, histVars>>

\* DriverRecv without the continue of the error branch: a failed download is
\* reported and counted, and then handed to the unzip stage like a good one.
DriverRecvNoContinue ==
    /\ pc = "collect"
    /\ downloadResults # <<>>
    /\ LET r == Head(downloadResults)
       IN  /\ successCount' = successCount + 1
           /\ failCount' = IF r.err # "nil" THEN failCount + 1 ELSE failCount
           /\ log' = IF r.err # "nil" THEN log \cup {DownloadMessage(r)} ELSE log
           /\ pc' = "send"
           /\ result' = [idx |-> r.idx, program |-> r.program, zipPath |-> r.zipPath]
    /\ downloadResults' = Tail(downloadResults)
    /\ UNCHANGED <<queryVars, inputVars, toDownload, downloadJobs, jobsClosed,
                   resultsClosed, unzipJobs, unzipClosed, taskVars, tmpFiles,
                   tmpMade, disk, histVars>>

\* main.go:198-204: the driver receives a result and counts it.
DriverRecv ==
    /\ pc = "collect"
    /\ downloadResults # <<>>
    /\ LET r == Head(downloadResults)
           t == Tally(successCount, failCount, r.err)
       IN  /\ successCount' = t.success
           /\ failCount' = t.fail
           /\ IF r.err # "nil"
              THEN /\ log' = log \cup {DownloadMessage(r)}
                   /\ UNCHANGED <<pc, result>>
              ELSE /\ pc' = "send"
                   /\ result' = [idx |-> r.idx, program |-> r.program,
                                 zipPath |-> r.zipPath]
                   /\ UNCHANGED log
    /\ downloadResults' = Tail(downloadResults)
    /\ UNCHANGED <<queryVars, inputVars, toDownload, downloadJobs, jobsClosed,
                   resultsClosed, unzipJobs, unzipClosed, taskVars, tmpFiles,
                   tmpMade, disk, histVars>>

\* main.go:205: the driver sends the unzip job (blocks while the channel is full).
DriverSend ==
    /\ pc = "send"
    /\ Len(unzipJobs) < UnzipCap(workers)
    /\ unzipJobs' = Append(unzipJobs, result)
    /\ result' = NoJob
    /\ pc' = "collect"
    /\ UNCHANGED <<queryVars, inputVars, toDownload, successCount, failCount,
                   downloadJobs, jobsClosed, downloadResults, resultsClosed,
                   unzipClosed, taskVars, fsVars, histVars>>

\* main.go:198, 207: downloadResults is closed and drained; close(unzipJobs).
DriverClose ==
    /\ pc = "collect"
    /\ downloadResults = <<>> /\ resultsClosed
    /\ unzipClosed' = TRUE
    /\ pc' = "wait"
    /\ UNCHANGED <<queryVars, inputVars, toDownload, successCount, failCount, result,
                   downloadJobs, jobsClosed, downloadResults, resultsClosed,
                   unzipJobs, taskVars, fsVars, histVars>>

\* main.go:208-211: unzipWg.Wait returns; the tally is printed and
\* parallelDownload returns.
DriverReturn ==
    /\ pc = "wait"
    /\ unzipWg = 0
    /\ pc' = "done"
    /\ UNCHANGED <<queryVars, inputVars, toDownload, successCount, failCount, result,
                   chanVars, taskVars, fsVars, histVars>>


\* main.go:182-184: an unzip worker receives a job.
UzRecv ==
    /\ Running /\ BagIn(IdleUz, uzWorkers)
    /\ unzipJobs # <<>>
    /\ uzWorkers' = Move(uzWorkers, IdleUz, [IdleUz EXCEPT !.pc = "unzip",
                                                          !.job = Head(unzipJobs)])
    /\ unzipJobs' = Tail(unzipJobs)
    /\ UNCHANGED <<queryVars, inputVars, driverVars, downloadJobs, jobsClosed,
                   downloadResults, resultsClosed, unzipClosed, dlWorkers, dlWg,
                   feeder, closer, unzipWg, fsVars, histVars>>

\* main.go:186-191: unzip has returned err for worker w: the message, the
\* os.Remove of the archive, and the worker is back at its range loop.
UzFinish(w, err, made, wrote) ==
    /\ log' = log \cup {UnzipMessage(w.job, err)}
    /\ tmpFiles' = RemoveZip(tmpFiles, w.job.zipPath, err)
    /\ outcome' = [outcome EXCEPT ![w.job.idx] =
                      [done |-> TRUE, created |-> made, err |-> err, wrote |-> wrote]]
    /\ uzWorkers' = Move(uzWorkers, w, IdleUz)

\* main.go:241-256: unzip opens the archive and creates the output file.
UzBegin ==
    /\ Running
    /\ \E w \in BagToSet(uzWorkers) :
        /\ w.pc = "unzip"
        /\ \E o \in UnzipOpen(w.job.zipPath \in tmpFiles) :
            IF o # "nil"
            THEN /\ UzFinish(w, o, FALSE, <<>>)
                 /\ UNCHANGED disk
            ELSE /\ disk' = [disk EXCEPT ![w.job.program.Name] = Create(@)]
                 /\ uzWorkers' = Move(uzWorkers, w,
                        [w EXCEPT !.pc = "copy", !.member = 1, !.off = 0])
                 /\ UNCHANGED <<tmpFiles, log, outcome>>
    /\ UNCHANGED <<queryVars, inputVars, driverVars, chanVars, dlWorkers, dlWg, feeder,
                   closer, unzipWg, tmpMade, fetched, run, prevDisk>>

\* main.go:258-274: unzip skips to the next text member and copies it; when
\* no text member is left it returns nil.  (The return after the last copy
\* touches nothing another goroutine reads, and is part of the same step.)
UzCopy ==
    /\ Running
    /\ \E w \in BagToSet(uzWorkers) :
        /\ w.pc = "copy"
        /\ LET archive == remote[w.job.program.URL]
               j == NextText(archive, w.member)
           IN  IF j = 0
               THEN /\ UzFinish(w, "nil", TRUE, w.wrote)
                    /\ UNCHANGED disk
               ELSE \E o \in CopyOutcomes(archive[j].data) :
                      LET bytes == SubSeq(archive[j].data, 1, o.n)
                      IN  /\ disk' = [disk EXCEPT ![w.job.program.Name] =
                                         WriteAt(@, w.off, bytes)]
                          /\ IF o.err = "nil" /\ NextText(archive, j + 1) # 0
                             THEN /\ uzWorkers' = Move(uzWorkers, w,
                                       [w EXCEPT !.member = j + 1,
                                                 !.off = w.off + o.n,
                                                 !.wrote = w.wrote \o bytes])
                                  /\ UNCHANGED <<tmpFiles, log, outcome>>
                             ELSE UzFinish(w, o.err, TRUE, w.wrote \o bytes)
    /\ UNCHANGED <<queryVars, inputVars, driverVars, chanVars, dlWorkers, dlWg, feeder,
                   closer, unzipWg, tmpMade, fetched, run, prevDisk>>

\* main.go:181-182: unzipJobs is closed and drained; the worker returns.
UzExit ==
    /\ Running /\ BagIn(IdleUz, uzWorkers)
    /\ unzipJobs = <<>> /\ unzipClosed
    /\ uzWorkers' = uzWorkers (-) SetToBag({IdleUz})
    /\ unzipWg' = unzipWg - 1
    /\ UNCHANGED <<queryVars, inputVars, driverVars, chanVars, dlWorkers, dlWg, feeder,
                   closer, fsVars, histVars>>

Next ==
    \/ Resolve \/ StartStageA \/ StartStageB
    \/ FeederSend \/ FeederClose
    \/ DlRecv \/ DlFetch \/ DlExit \/ CloserClose
    \/ DriverRecv \/ DriverSend \/ DriverClose \/ DriverReturn
    \/ UzRecv \/ UzBegin \/ UzCopy \/ UzExit

Spec == Init /\ [][Next]_vars


\* Scheduling: a goroutine that can take a step eventually does.
FairSpec == Spec /\ WF_vars(Next)

\* ----------------------------------------------------------- parallelQuery
pipelineVars == <<inputVars, driverVars, chanVars, taskVars, fsVars, histVars>>

\* A query worker between two files.
IdleQ == [pc |-> "recv", result |-> NoResult]

\* main.go:278-291: lower the term, walk the corpus, return when it is empty.
QWalk ==
    /\ qpc = "start"
    /\ domain' = LowerSeq(term)
    /\ files' = Walk(disk)
    /\ qpc' = IF EmptyCorpus(Walk(disk)) THEN "done" ELSE "make"
    /\ UNCHANGED <<pipelineVars, reduced, term, fileJobs, fileJobsClosed, results,
                   queryClosed, qChans, qWorkers, wg, qFeeder, qCloser, best, stdout>>

\* main.go:294-324: make the two channels (a negative capacity panics), start
\* the workers, the feeder and the closer.
QStart ==
    /\ qpc = "make"
    /\ IF workers < 0
       THEN /\ qpc' = "panicked"
            /\ qChans' = qChans \cup {"fileJobs"}
            /\ UNCHANGED <<qWorkers, wg, qFeeder, qCloser>>
       ELSE /\ qpc' = "reduce"
            /\ qChans' = qChans \cup {"fileJobs", "results"}
            /\ qWorkers' = Copies(IdleQ, workers)
            /\ wg' = workers
            /\ qFeeder' = [pc |-> "run", i |-> 1]
            /\ qCloser' = "wait"
    /\ UNCHANGED <<pipelineVars, reduced, term, domain, files, fileJobs, fileJobsClosed,
                   results, queryClosed, best, stdout>>

\* main.go:314-316: the feeder sends the next file.
QFeederSend ==
    /\ qpc = "reduce" /\ qFeeder.pc = "run"
    /\ qFeeder.i <= Len(files)
    /\ Len(fileJobs) < Len(files)
    /\ fileJobs' = Append(fileJobs, files[qFeeder.i])
    /\ qFeeder' = [qFeeder EXCEPT !.i = @ + 1]
    /\ UNCHANGED <<pipelineVars, reduced, term, qpc, domain, files, fileJobsClosed, results,
                   queryClosed, qChans, qWorkers, wg, qCloser, best, stdout>>

\* main.go:317: close(fileJobs) after the last file.
QFeederClose ==
    /\ qpc = "reduce" /\ qFeeder.pc = "run"
    /\ qFeeder.i > Len(files)
    /\ fileJobsClosed' = TRUE
    /\ qFeeder' = [qFeeder EXCEPT !.pc = "done"]
    /\ UNCHANGED <<pipelineVars, reduced, term, qpc, domain, files, fileJobs, results,
                   queryClosed, qChans, qWorkers, wg, qCloser, best, stdout>>

\* main.go:303-305: a worker takes a file and counts its matches; with no
\* match it goes on to the next file.
QRecv ==
    /\ qpc = "reduce"
    /\ BagIn(IdleQ, qWorkers)
    /\ Len(fileJobs) > 0
    /\ LET path  == Head(fileJobs)
           count == countMatches(disk[path], domain)
       IN  qWorkers' = IF count > 0
                       THEN Move(qWorkers, IdleQ,
                                 [pc |-> "send",
                                  result |-> [file |-> path, matchCount |-> count]])
                       ELSE qWorkers
    /\ fileJobs' = Tail(fileJobs)
    /\ UNCHANGED <<pipelineVars, reduced, term, qpc, domain, files, fileJobsClosed, results,
                   queryClosed, qChans, wg, qFeeder, qCloser, best, stdout>>

\* main.go:306: a worker sends its result; it blocks while results is full.
QSend ==
    /\ qpc = "reduce"
    /\ \E w \in BagToSet(qWorkers) :
          /\ w.pc = "send"
          /\ Len(results) < workers
          /\ results' = Append(results, w.result)
          /\ qWorkers' = Move(qWorkers, w, IdleQ)
    /\ UNCHANGED <<pipelineVars, reduced, term, qpc, domain, files, fileJobs, fileJobsClosed,
                   queryClosed, qChans, wg, qFeeder, qCloser, best, stdout>>

\* main.go:302-303: fileJobs is closed and empty; the worker returns.
QExit ==
    /\ qpc = "reduce"
    /\ BagIn(IdleQ, qWorkers)
    /\ Len(fileJobs) = 0 /\ fileJobsClosed
    /\ qWorkers' = qWorkers (-) SetToBag({IdleQ})
    /\ wg' = wg - 1
    /\ UNCHANGED <<pipelineVars, reduced, term, qpc, domain, files, fileJobs, fileJobsClosed,
                   results, queryClosed, qChans, qFeeder, qCloser, best, stdout>>

\* A closer that does not wait for the workers.
QCloserNoWait ==
    /\ qpc = "reduce" /\ qCloser = "wait"
    /\ queryClosed' = TRUE
    /\ qCloser' = "done"
    /\ UNCHANGED <<pipelineVars, reduced, term, qpc, domain, files, fileJobs,
                   fileJobsClosed, results, qChans, qWorkers, wg, qFeeder, best,
                   stdout>>

\* main.go:321-324: wg.Wait returned; close(results).
QCloser ==
    /\ qpc = "reduce" /\ qCloser = "wait"
    /\ wg = 0
    /\ queryClosed' = TRUE
    /\ qCloser' = "done"
    /\ UNCHANGED <<pipelineVars, reduced, term, qpc, domain, files, fileJobs, fileJobsClosed,
                   results, qChans, qWorkers, wg, qFeeder, best, stdout>>

\* main.go:328-332: the reducer takes one result.
QReduce ==
    /\ qpc = "reduce"
    /\ Len(results) > 0
    /\ best' = Reduce(best, Head(results))
    /\ results' = Tail(results)
    /\ reduced' = Append(reduced, Head(results))
    /\ UNCHANGED <<pipelineVars, term, qpc, domain, files, fileJobs, fileJobsClosed,
                   queryClosed, qChans, qWorkers, wg, qFeeder, qCloser, stdout>>

\* main.go:334-345: results is closed and drained; copy the best file to the
\* standard output, or return when there is none or it cannot be opened.
QOutput ==
    /\ qpc = "reduce"
    /\ Len(results) = 0 /\ queryClosed
    /\ qpc' = "done"
    /\ stdout' = IF best.file # "" /\ disk[best.file].exists
                 THEN stdout \o disk[best.file].data
                 ELSE stdout
    /\ UNCHANGED <<pipelineVars, reduced, term, domain, files, fileJobs, fileJobsClosed,
                   results, queryClosed, qChans, qWorkers, wg, qFeeder, qCloser, best>>

QueryNext ==
    \/ QWalk \/ QStart
    \/ QFeederSend \/ QFeederClose
    \/ QRecv \/ QSend \/ QExit \/ QCloser
    \/ QReduce \/ QOutput

\* The files a corpus is drawn from: one match, two matches in mixed case
\* with a last line without a newline, matches before and after a line of
\* ScanCeiling bytes, a line ending in a carriage return, no match.
Bodies ==
    { NoFile,
      File(<<"x", "\n">>),
      File(<<"X", "y", "\n", "x">>),
      File(<<"x", "\n", "y", "y", "y", "\n", "x", "\n">>),
      File(<<"x", "y", "\r", "\n", "y", "x", "\n">>),
      File(<<"y">>) }

\* The -q arguments tried.
Terms == { <<"X">>, <<"x", "y">>, <<"y", "\r">> }

\* main's switch took the query case: any corpus, term and -w.
InitQuery ==
    /\ programs = <<>>
    /\ target = ""
    /\ workers \in WorkerCounts
    /\ remote = FixedRemote
    /\ disk \in [Names -> Bodies]
    /\ run = 1
    /\ prevDisk = disk
    /\ PipelineInit
    /\ term \in Terms
    /\ qpc = "start" /\ domain = <<>>
    /\ files = <<>>
    /\ fileJobs = <<>> /\ fileJobsClosed = FALSE
    /\ results = <<>> /\ queryClosed = FALSE
    /\ qChans = {}
    /\ qWorkers = EmptyBag /\ wg = 0
    /\ qFeeder = [pc |-> "idle", i |-> 1]
    /\ qCloser = "idle"
    /\ best = NoResult
    /\ stdout = <<>>
    /\ reduced = <<>>

SpecQuery == InitQuery /\ [][QueryNext]_vars

\* Scheduling: a goroutine of the query that can take a step eventually does.
FairSpecQuery == SpecQuery /\ WF_vars(QueryNext)


\* ------------------------------------------------- extraction of any archive
\* One program whose URL serves any archive of at most MaxMembers members.
InitUnzip ==
    /\ programs = << Prog("a", "u1", 1) >>
    /\ target \in {"all", "A"}
    /\ workers \in 1..MaxWorkers
    /\ \E archive \in SeqsUpTo(MemberUniverse, MaxMembers) :
          remote = [u \in URLs |-> archive]
    /\ disk = [n \in Names |-> NoFile]
    /\ run = 1
    /\ prevDisk = disk
    /\ PipelineInit
    /\ QueryIdle

SpecUnzip == InitUnzip /\ [][Next]_vars

\* --------------------------------------------- one name listed twice
\* An index that lists one program twice, its URL serving any archive of at
\* most MaxMembers members.
InitSameName ==
    /\ programs = << Prog("a", "u1", 1), Prog("a", "u1", 1) >>
    /\ target = "all"
    /\ workers \in 1..MaxWorkers
    /\ \E archive \in SeqsUpTo(MemberUniverse, MaxMembers) :
          remote = [u \in URLs |-> archive]
    /\ disk = [n \in Names |-> NoFile]
    /\ run = 1
    /\ prevDisk = disk
    /\ PipelineInit
    /\ QueryIdle

SpecSameName == InitSameName /\ [][Next]_vars

\* ------------------------------------------- more entities than workers
\* An index of four eligible programs, downloaded with one worker per stage.
InitBacklog ==
    /\ programs = << Prog("a", "u1", 1), Prog("b", "u2", 2),
                     Prog("a", "u1", 1), Prog("b", "u2", 2) >>
    /\ target = "all"
    /\ workers = 1
    /\ remote = FixedRemote
    /\ disk = [n \in Names |-> NoFile]
    /\ run = 1
    /\ prevDisk = disk
    /\ PipelineInit
    /\ QueryIdle

SpecBacklog == InitBacklog /\ [][Next]_vars

\* ------------------------------------------------------------ a second run
\* What the URL serves at the first and at the second run: two text members,
\* one shorter text member, no text member.
RerunArchives ==
    { << Member(<<"a", ".txt">>, FALSE, <<"x", "\n">>),
         Member(<<"b", ".txt">>, FALSE, <<"y">>) >>,
      << Member(<<"b", ".txt">>, FALSE, <<"z">>) >>,
      << Member(<<"r", ".md">>, FALSE, <<"q">>) >> }

\* main.go:46-81: the program is started again with the same arguments when
\* its first run has returned; the corpus stays, the URL may serve other data.
Rerun ==
    /\ pc = "done" /\ run = 1
    /\ run' = 2
    /\ prevDisk' = disk
    /\ \E archive \in RerunArchives : remote' = [u \in URLs |-> archive]
    /\ pc' = "resolve"
    /\ toDownload' = <<>>
    /\ successCount' = 0 /\ failCount' = 0
    /\ result' = NoJob
    /\ downloadJobs' = <<>> /\ jobsClosed' = FALSE
    /\ downloadResults' = <<>> /\ resultsClosed' = FALSE
    /\ unzipJobs' = <<>> /\ unzipClosed' = FALSE
    /\ dlWorkers' = EmptyBag /\ dlWg' = 0
    /\ feeder' = [pc |-> "idle", i |-> 1]
    /\ closer' = "idle"
    /\ uzWorkers' = EmptyBag /\ unzipWg' = 0
    /\ tmpMade' = 0
    /\ log' = {}
    /\ fetched' = [i \in 1..Len(programs) |-> "none"]
    /\ outcome' = [i \in 1..Len(programs) |-> NoOutcome]
    /\ UNCHANGED <<queryVars, programs, target, workers, tmpFiles, disk>>

NextRerun == Next \/ Rerun

\* Two runs for one program, with any worker count.
InitRerun ==
    /\ programs = << Prog("a", "u1", 1) >>
    /\ target \in {"all", "A"}
    /\ workers \in WorkerCounts
    /\ \E archive \in RerunArchives : remote = [u \in URLs |-> archive]
    /\ disk = [n \in Names |-> NoFile]
    /\ run = 1
    /\ prevDisk = disk
    /\ PipelineInit
    /\ QueryIdle

SpecRerun == InitRerun /\ [][NextRerun]_vars


\* ------------------------------------------------------- derived notions
Indices == 1..Len(toDownload)
EligibleIdx == { i \in Indices : Eligible(toDownload[i]) }
FetchedOk  == { i \in Indices : fetched[i] = "ok" }
FetchedErr == { i \in Indices : fetched[i] = "err" }

\* The per-entity states of the pipeline.
FetchFailed(i)   == fetched[i] = "err"
ExtractFailed(i) == outcome[i].done /\ outcome[i].err # "nil"
Done(i)          == outcome[i].done /\ outcome[i].err = "nil"
Terminal(i)      == FetchFailed(i) \/ ExtractFailed(i) \/ Done(i)

\* parallelDownload has passed the target resolution.
PipelineStarted == pc \notin {"resolve", "exited"}

RECURSIVE CopiesOf(_, _)
\* The number of goroutines of bag b whose local state is in S.
CopiesOf(b, S) ==
    IF S = {} THEN 0
    ELSE LET w == CHOOSE x \in S : TRUE
         IN  CopiesIn(w, b) + CopiesOf(b, S \ {w})

\* The number of goroutines of bag b whose local state satisfies Test.
BagSum(b, Test(_)) == CopiesOf(b, { w \in BagToSet(b) : Test(w) })

Count(seq, Test(_)) == Cardinality({ i \in DOMAIN seq : Test(seq[i]) })

\* How many pending results, jobs and workers hold the temp path t.
RefCount(t) ==
    LET Holds(x) == x.zipPath = t
        Works(w) == w.pc # "recv" /\ w.job.zipPath = t
    IN  Count(downloadResults, Holds) + Count(unzipJobs, Holds)
        + (IF pc = "send" /\ result.zipPath = t THEN 1 ELSE 0)
        + BagSum(uzWorkers, Works)

\* ---------------------------------------------------------------- claims
\* C1: when parallelDownload has returned no temporary archive exists, and
\* at every moment each existing temporary archive is held by exactly one
\* pending result, unzip job or unzip worker (the one that will remove it).
C1_NoTempLeft ==
    /\ pc = "done" => tmpFiles = {}
    /\ \A t \in tmpFiles : RefCount(t) = 1

\* C1 witness: the run is over, a temp file was removed inside downloadZip
\* (more were made than fetches succeeded) and an extraction failed.
C1_Witness ==
    /\ pc = "done" /\ tmpFiles = {}
    /\ tmpMade > Cardinality(FetchedOk)
    /\ \E i \in Indices : ExtractFailed(i)

\* C2 as stated: at the return the counters are the numbers of successful
\* and failed fetches and add up to the number of eligible entities.
C2_TallyAllEligible ==
    pc = "done" =>
        /\ successCount = Cardinality(FetchedOk)
        /\ failCount = Cardinality(FetchedErr)
        /\ successCount + failCount = Cardinality(EligibleIdx)

\* C2 with at least one worker: at the return the counters are the numbers
\* of successful and failed fetches, whatever the extractions did, and add
\* up to the number of eligible entities.
C2_Tally ==
    pc = "done" =>
        /\ successCount = Cardinality(FetchedOk)
        /\ failCount = Cardinality(FetchedErr)
        /\ workers >= 1 => successCount + failCount = Cardinality(EligibleIdx)

\* A case of C2_Tally: a run with a failed fetch and a successful fetch whose
\* extraction failed.
C2_Witness ==
    /\ pc = "done" /\ workers >= 1
    /\ successCount >= 1 /\ failCount >= 1
    /\ \E i \in Indices : ExtractFailed(i)

\* C3: a program with an empty URL or a count <= 0 is never on a channel,
\* never held by a worker or the driver, never fetched, counted or
\* extracted, and no message names it.
C3_SkipFilter ==
    LET Skipped(p) == p.URL = "" \/ p.Count <= 0
        SkippedIdx == { i \in Indices : Skipped(toDownload[i]) }
        Bad(x) == Skipped(x.program)
        Held(w) == w.pc # "recv" /\ Bad(w.job)
    IN  /\ Count(downloadJobs, Bad) = 0
        /\ Count(downloadResults, Bad) = 0
        /\ Count(unzipJobs, Bad) = 0
        /\ pc = "send" => ~Bad(result)
        /\ BagSum(dlWorkers, Held) = 0
        /\ BagSum(uzWorkers, Held) = 0
        /\ \A i \in SkippedIdx :
              /\ fetched[i] = "none" /\ ~outcome[i].done
              /\ \A m \in log : m.idx # i
        /\ successCount + failCount <= Cardinality(Indices \ SkippedIdx)

\* C3 witness: a finished run over a list with a skipped program and a
\* program that went through the whole pipeline.
C3_Witness ==
    /\ pc = "done"
    /\ Indices \ EligibleIdx # {}
    /\ \E i \in Indices : Done(i)


\* C4 as stated: whatever the worker count, at the return every eligible
\* entity is FetchFailed, ExtractFailed or Done.
C4_AllTerminalAnyW ==
    pc = "done" => \A i \in EligibleIdx : Terminal(i)

\* A step in which entity i fails leaves the process running, keeps every
\* worker and every pending job, and changes no other entity.
ErrorIsLocal ==
    \A i \in Indices :
        (~(FetchFailed(i) \/ ExtractFailed(i)) /\ (FetchFailed(i) \/ ExtractFailed(i))')
        => /\ pc' = pc /\ Running'
           /\ BagCardinality(dlWorkers') = BagCardinality(dlWorkers)
           /\ BagCardinality(uzWorkers') = BagCardinality(uzWorkers)
           /\ downloadJobs' = downloadJobs /\ unzipJobs' = unzipJobs
           /\ \A j \in Indices \ {i} :
                 fetched'[j] = fetched[j] /\ outcome'[j] = outcome[j]

\* C4 with at least one worker: a failed fetch or extraction stops
\* nothing but its own entity, and at the return every eligible entity is
\* FetchFailed, ExtractFailed or Done.
C4_ErrorLocality ==
    /\ [](workers >= 1 /\ pc = "done" => \A i \in EligibleIdx : Terminal(i))
    /\ [][ErrorIsLocal]_vars

\* A case of C4_ErrorLocality: a finished run in which one entity failed and another is Done.
C4_Witness ==
    /\ pc = "done" /\ workers >= 1
    /\ \E i, j \in Indices :
          i # j /\ (FetchFailed(i) \/ ExtractFailed(i)) /\ Done(j)

\* What is left to do, as a number every step lowers: no run goes on for ever.
Remaining ==
    LET Fetching(w) == w.pc = "fetch"
        Opening(w)  == w.pc = "unzip"
        Copying(w)  == w.pc = "copy"
        CopyWork(S) == CopiesOf(uzWorkers, S)
        Left(w)     == Cardinality({ j \in w.member..Len(remote[w.job.program.URL]) :
                                       IsText(remote[w.job.program.URL][j]) })
        copying     == { w \in BagToSet(uzWorkers) : Copying(w) }
        RECURSIVE LeftSum(_)
        LeftSum(S)  == IF S = {} THEN 0
                       ELSE LET w == CHOOSE x \in S : TRUE
                            IN  CopiesIn(w, uzWorkers) * (2 + Left(w)) + LeftSum(S \ {w})
    IN  (CASE pc = "resolve" -> 3000 [] pc = "stageA" -> 2000 [] pc = "stageB" -> 1000
           [] pc \in {"collect", "send"} -> 2 [] pc = "wait" -> 1 [] OTHER -> 0)
        + (IF feeder.pc = "run" THEN 1 + 18 * (Len(toDownload) + 1 - feeder.i) ELSE 0)
        + 17 * Len(downloadJobs)
        + BagCardinality(dlWorkers) + 14 * BagSum(dlWorkers, Fetching)
        + 13 * Len(downloadResults)
        + (IF closer = "wait" THEN 1 ELSE 0)
        + (IF pc = "send" THEN 12 ELSE 0)
        + 11 * Len(unzipJobs)
        + BagSum(uzWorkers, LAMBDA w : w.pc = "recv") + 10 * BagSum(uzWorkers, Opening)
        + LeftSum(copying)

\* The run is over: no goroutine can take a step.
Halted == ~ENABLED Next

\* C5 as stated: once the pipeline has started, the run ends only by the
\* return of parallelDownload.
C5_AlwaysReturns ==
    PipelineStarted /\ Halted => pc = "done"

\* At the return: downloadResults closed and drained, unzipJobs closed and
\* empty, no unzip worker left, every successful fetch extracted.
Barrier ==
    pc = "done" =>
        /\ resultsClosed /\ downloadResults = <<>>
        /\ unzipClosed /\ unzipJobs = <<>>
        /\ uzWorkers = EmptyBag /\ unzipWg = 0
        /\ \A i \in FetchedOk : outcome[i].done

\* C5 without the negative worker counts: parallelDownload returns only
\* behind the barrier, and with a worker count >= 0 a started pipeline always reaches the return: every
\* step lowers what remains to do and the run halts nowhere else (a
\* negative worker count panics at make(chan unzipJob, workers*2)).
C5_TerminationBarrier ==
    /\ [](Barrier)
    /\ [](workers >= 0 /\ PipelineStarted /\ Halted => pc = "done")
    /\ [][Remaining' < Remaining]_vars

\* A case of C5_TerminationBarrier: parallelDownload has returned after a successful fetch, whose
\* extraction is over, and a failed one.
C5_Witness ==
    /\ pc = "done"
    /\ FetchedOk # {} /\ FetchedErr # {}
    /\ \A i \in FetchedOk : outcome[i].done

\* The same as C5's termination, as a property of fair runs.
C5_Eventually == (PipelineStarted /\ workers >= 0) ~> (pc = "done")

RECURSIVE ExtractInOrder(_, _)
\* The corpus after the extractions 1..n done one after the other in the
\* order of the list, each with the outcome it had in this run: what one
\* worker per stage produces.
ExtractInOrder(d, n) ==
    IF n = 0 THEN d
    ELSE LET before == ExtractInOrder(d, n - 1)
         IN  IF outcome[n].done /\ outcome[n].created
             THEN [before EXCEPT ![toDownload[n].Name] = File(outcome[n].wrote)]
             ELSE before

\* C6: for W >= 1 the counters and the corpus at the return are those of the
\* run with one worker and the same per-entity outcomes.
C6_SameAsOneWorker ==
    (pc = "done" /\ workers >= 1) =>
        /\ successCount = Cardinality(FetchedOk)
        /\ failCount = Cardinality(FetchedErr)
        /\ disk = ExtractInOrder(prevDisk, Len(toDownload))

\* With one worker the corpus is that of the extractions in list order.
C6_OneWorker ==
    (pc = "done" /\ workers = 1) => disk = ExtractInOrder(prevDisk, Len(toDownload))

\* The files of the corpus and the count a worker reports for each.
Discovered == { n \in Names : disk[n].exists }
Reported(n) == countMatches(disk[n], LowerSeq(term))

\* C7: with W >= 1, when parallelQuery has returned it has written the full
\* contents of exactly one discovered file whose match count is at least 1
\* and is the largest of all discovered files, or nothing when no discovered
\* file has a match; before the return nothing is written.
C7_BestMatch ==
    LET hits == { n \in Discovered : Reported(n) >= 1 }
    IN  /\ qpc # "done" => stdout = <<>>
        /\ qpc = "done" /\ workers >= 1 =>
              IF hits = {} THEN stdout = <<>>
              ELSE \E n \in hits :
                      /\ \A m \in Discovered : Reported(m) <= Reported(n)
                      /\ best.file = n
                      /\ stdout = disk[n].data

\* C7 witness: three files with counts 1, 2 and 2, searched by two workers;
\* the later (in walk order) of the two count-2 files was written.
C7_Witness ==
    /\ qpc = "done" /\ workers >= 2
    /\ Reported("a") = 1 /\ Reported("b") = 2 /\ Reported("c") = 2
    /\ best.file = "c"
    /\ stdout = disk["c"].data

\* C8: when the walk finds no file, parallelQuery returns at once: nothing
\* is written, no channel is made, no worker, feeder or closer is started,
\* and no panic is raised, whatever the worker count.
C8_EmptyCorpus ==
    qpc # "start" /\ Discovered = {} =>
        /\ qpc = "done"
        /\ stdout = <<>>
        /\ qChans = {}
        /\ qWorkers = EmptyBag /\ wg = 0
        /\ qFeeder.pc = "idle" /\ qCloser = "idle"
        /\ fileJobs = <<>> /\ results = <<>>

\* C8 witness: a query over an empty corpus has returned, here with the
\* worker count that would make the results channel's make panic.
C8_Witness ==
    /\ qpc = "done" /\ Discovered = {} /\ files = <<>>
    /\ workers < 0

RECURSIVE Concat(_)
\* The bytes of the plain-text members of an archive, in stored order.
Concat(archive) ==
    IF archive = <<>> THEN <<>>
    ELSE (IF ~Head(archive).dir /\ HasSuffixTxt(Head(archive).name)
          THEN Head(archive).data ELSE <<>>) \o Concat(Tail(archive))

\* s is the start of t.
IsPrefix(s, t) == Len(s) <= Len(t) /\ SubSeq(t, 1, Len(s)) = s

\* C9: once the extraction attempt for an entity has returned, the entity's
\* consolidated file is absent or holds the whole concatenation of the
\* archive's plain-text members.
C9_FullOrAbsent ==
    \A i \in Indices :
        outcome[i].done =>
            LET f == disk[toDownload[i].Name]
            IN  ~f.exists \/ f.data = Concat(remote[toDownload[i].URL])

\* C10 as stated: after the second run for one entity, the consolidated file
\* holds bytes of the second run's archive only (some start of its text
\* members' concatenation), nothing the first run wrote.
C10_OnlySecondRun ==
    run = 2 /\ pc = "done" =>
        LET f == disk[toDownload[1].Name]
        IN  f.exists => IsPrefix(f.data, Concat(remote[toDownload[1].URL]))

\* C10 amended: after the second run, if its extraction created the output
\* file, the file holds exactly what that extraction wrote, a start of the
\* second archive's text; otherwise (fetch failed, archive or output file
\* could not be opened, no worker) the file is as the first run left it.
C10_Overwrite ==
    run = 2 /\ pc = "done" =>
        LET n == toDownload[1].Name
            o == outcome[1]
        IN  IF o.done /\ o.created
            THEN /\ disk[n] = File(o.wrote)
                 /\ IsPrefix(o.wrote, Concat(remote[toDownload[1].URL]))
            ELSE disk[n] = prevDisk[n]

\* C10 witness: the first run wrote a file, the second run's extraction
\* succeeded on a shorter archive and the file is now the shorter text.
C10_Witness ==
    /\ run = 2 /\ pc = "done"
    /\ prevDisk["a"].exists
    /\ Done(1)
    /\ disk["a"].exists
    /\ Len(disk["a"].data) > 0
    /\ Len(disk["a"].data) < Len(prevDisk["a"].data)

\* Some line of d (a newline-free stretch that starts at the beginning of d
\* or after a newline) has ScanCeiling bytes or more.
HasLongLine(d) ==
    \E p \in 1..Len(d) :
        /\ (p = 1 \/ d[p - 1] = "\n")
        /\ \A q \in p..(p + ScanCeiling - 1) : q <= Len(d) /\ d[q] # "\n"

\* A hit for file n exists somewhere in the query: on the results channel,
\* in a worker about to send it, or as the reducer's best.
Hit(n) ==
    \/ \E i \in 1..Len(results) : results[i].file = n
    \/ \E w \in BagToSet(qWorkers) : w.pc = "send" /\ w.result.file = n
    \/ best.file = n

\* C11: a file with a line of ScanCeiling bytes or more contributes zero
\* matches: no hit ever names it, whatever matching lines precede that line.
C11_OverflowYieldsZero ==
    \A n \in Discovered : HasLongLine(disk[n].data) => ~Hit(n)

\* The number of unzip workers that have the consolidated file of name n
\* open for writing (between unzip's os.Create and its return).
Writers(n) ==
    LET Writing(w) == w.pc = "copy" /\ w.job.program.Name = n
    IN  BagSum(uzWorkers, Writing)

\* C12: no two unzip workers write the same consolidated file at the same
\* time.
C12_NoWriteWriteRace ==
    \A n \in Names : Writers(n) <= 1

\* Where the fetch outcome of entry i is: buffered on downloadResults, in the
\* driver's hands on its way to unzipJobs, buffered on unzipJobs, with an
\* unzip worker, or extracted.
Pending(i) ==
    LET Is(x) == x.idx = i
    IN  Count(downloadResults, Is)
InExtraction(i) ==
    LET Is(x) == x.idx = i
        Has(w) == w.pc # "recv" /\ w.job.idx = i
    IN  (IF pc = "send" /\ result.idx = i THEN 1 ELSE 0)
        + Count(unzipJobs, Is)
        + BagSum(uzWorkers, Has)
        + (IF outcome[i].done THEN 1 ELSE 0)
\* The driver has reported entry i as a failed download.
CountedFailed(i) ==
    [kind |-> "download-error", idx |-> i, name |-> toDownload[i].Name] \in log

\* C13: every fetch outcome is consumed exactly once by the driver: an
\* outcome with an error is pending or counted as a failure, and never in
\* the unzip stage; an outcome without error is in exactly one of: pending,
\* one unzip job in the driver's hands or on the channel, one unzip worker,
\* extracted; an entry not fetched is nowhere.  The counters count the
\* consumed outcomes, and at the return nothing is pending and every
\* outcome without error has been extracted.
C13_ExactlyOnce ==
    /\ \A i \in Indices :
          CASE fetched[i] = "err" ->
                  /\ Pending(i) + (IF CountedFailed(i) THEN 1 ELSE 0) = 1
                  /\ InExtraction(i) = 0
            [] fetched[i] = "ok" ->
                  /\ Pending(i) + InExtraction(i) = 1
                  /\ ~CountedFailed(i)
            [] OTHER ->
                  Pending(i) + InExtraction(i) = 0 /\ ~CountedFailed(i)
    /\ failCount = Cardinality({ i \in Indices : CountedFailed(i) })
    /\ successCount = Cardinality({ i \in FetchedOk : Pending(i) = 0 })
    /\ pc = "done" => \A i \in Indices : Pending(i) = 0
    /\ pc = "done" => \A i \in FetchedOk : outcome[i].done

\* C13 witness: at the return, one outcome was counted as a failure and
\* another went through one unzip job to one finished extraction.
C13_Witness ==
    /\ pc = "done"
    /\ \E i, j \in Indices :
          /\ CountedFailed(i) /\ InExtraction(i) = 0
          /\ fetched[j] = "ok" /\ InExtraction(j) = 1 /\ outcome[j].done

\* C14: parallelDownload never ends the process itself: a target that is in
\* no entry of the index is an outcome handed back to the caller.
C14_NeverExits ==
    pc # "exited"

\* The step in which the extraction of entry i returns without error leaves
\* the entry's consolidated file equal to the concatenation of the archive's
\* plain-text members.
ExtractedWhole ==
    \A i \in Indices :
        (~outcome[i].done /\ outcome'[i].done /\ outcome'[i].err = "nil")
        => disk'[toDownload[i].Name] = File(Concat(remote[toDownload[i].URL]))

\* C15: when an extraction returns without error, the consolidated file is
\* the concatenation, in stored order and with no separator, of the members
\* that are regular files with the .txt suffix; directories and other
\* members add nothing and cause no error.
C15_ExtractionContent == [][ExtractedWhole]_vars

\* One step of the close protocol: a channel is closed only while open and
\* never reopened; downloadJobs by the feeder when every eligible entry has
\* been sent, downloadResults when no download worker is left, unzipJobs by
\* the driver when downloadResults is closed and drained; nothing is sent
\* on a closed channel.
CloseProtocolStep ==
    LET Sendable(p) == p.URL # "" /\ p.Count > 0
    IN  /\ FeederClose => ~jobsClosed
        /\ CloserClose => ~resultsClosed
        /\ DriverClose => ~unzipClosed
        /\ jobsClosed => jobsClosed'
        /\ resultsClosed => resultsClosed'
        /\ unzipClosed => unzipClosed'
        /\ (~jobsClosed /\ jobsClosed') =>
              /\ feeder.pc = "run" /\ feeder'.pc = "done"
              /\ \A j \in Indices : Sendable(toDownload[j]) => j < feeder.i
        /\ (~resultsClosed /\ resultsClosed') =>
              /\ dlWorkers = EmptyBag /\ dlWg = 0
              /\ closer = "wait" /\ closer' = "done"
        /\ (~unzipClosed /\ unzipClosed') =>
              /\ pc = "collect" /\ pc' = "wait"
              /\ resultsClosed /\ downloadResults = <<>>
        /\ Len(downloadJobs') > Len(downloadJobs) => ~jobsClosed
        /\ Len(downloadResults') > Len(downloadResults) => ~resultsClosed
        /\ Len(unzipJobs') > Len(unzipJobs) => ~unzipClosed

\* C16: each of the three channels is closed exactly once: every step
\* keeps the close protocol, and when parallelDownload has returned each
\* channel has been closed.
C16_CloseProtocol ==
    /\ [][CloseProtocolStep]_vars
    /\ [](pc = "done" => jobsClosed /\ resultsClosed /\ unzipClosed)

\* The part of C16 that holds for every worker count: the steps keep the
\* protocol, and at the return downloadResults and unzipJobs are closed, and
\* downloadJobs too when there is a worker.
C16_ProtocolSteps ==
    /\ [][CloseProtocolStep]_vars
    /\ [](pc = "done" => resultsClosed /\ unzipClosed /\ (workers >= 1 => jobsClosed))

\* C17: whatever the number of entities, at most about 2*W fetch outcomes
\* (here: 2*W and one more) are buffered on downloadResults and at most 2*W
\* jobs on unzipJobs.
C17_Backpressure ==
    PipelineStarted =>
        /\ Len(downloadResults) <= 2 * workers + 1
        /\ Len(unzipJobs) <= 2 * workers

\* The bounds the channels do have: downloadResults holds at most one
\* outcome per entity of the list, unzipJobs at most 2*W jobs, and the temp
\* archives are at most as many as the fetched entities.
C17_Capacities ==
    /\ Len(downloadResults) <= Len(toDownload)
    /\ workers >= 0 => Len(unzipJobs) <= 2 * workers
    /\ Cardinality(tmpFiles) <= Cardinality(FetchedOk)

\* The download workers fetching entry i, the unzip workers extracting it.
Fetchers(i) ==
    LET Has(w) == w.pc = "fetch" /\ w.job.idx = i
    IN  BagSum(dlWorkers, Has)
Extractors(i) ==
    LET Has(w) == w.pc \in {"unzip", "copy"} /\ w.job.idx = i
    IN  BagSum(uzWorkers, Has)

\* The state of entry i in the per-entity state machine.
EntityState(i) ==
    CASE outcome[i].done /\ outcome[i].err = "nil" -> "Done"
      [] outcome[i].done /\ outcome[i].err # "nil" -> "ExtractFailed"
      [] ~outcome[i].done /\ Extractors(i) > 0 -> "Extracting"
      [] ~outcome[i].done /\ Extractors(i) = 0 /\ fetched[i] = "ok" -> "Fetched"
      [] ~outcome[i].done /\ Extractors(i) = 0 /\ fetched[i] = "err" -> "FetchFailed"
      [] ~outcome[i].done /\ Extractors(i) = 0 /\ fetched[i] = "none"
            /\ Fetchers(i) > 0 -> "Fetching"
      [] OTHER -> "Queued"

EntityEdges ==
    { <<"Queued", "Fetching">>, <<"Fetching", "FetchFailed">>,
      <<"Fetching", "Fetched">>, <<"Fetched", "Extracting">>,
      <<"Extracting", "ExtractFailed">>, <<"Extracting", "Done">> }

\* No worker holds an entry outside its stage, and no two workers hold it.
OneHolder(i) ==
    /\ Fetchers(i) <= 1 /\ Extractors(i) <= 1
    /\ Fetchers(i) = 1 => fetched[i] = "none"
    /\ Extractors(i) = 1 => fetched[i] = "ok" /\ ~outcome[i].done
    /\ outcome[i].done => fetched[i] = "ok"
    /\ fetched[i] # "none" => Eligible(toDownload[i])

EntityStep ==
    \A i \in 1..Len(toDownload) :
        \/ EntityState(i)' = EntityState(i)
        \/ <<EntityState(i), EntityState(i)'>> \in EntityEdges

\* C18: every entity of the list moves only along Queued -> Fetching ->
\* (FetchFailed | Fetched) -> Extracting -> (ExtractFailed | Done); it is
\* extracted only after its own fetch succeeded, the three final states are
\* never left, and at most one worker fetches it and at most one extracts it.
C18_EntityStateMachine ==
    /\ [](\A i \in Indices : OneHolder(i))
    /\ [][EntityStep]_vars

\* Reached: one entity is Done, another failed in its fetch and a third, or
\* the same run's other entry, failed in its extraction.
C18_Witness ==
    /\ pc = "done"
    /\ \E i, j \in Indices :
        /\ EntityState(i) = "Done"
        /\ EntityState(j) \in {"FetchFailed", "ExtractFailed"}

\* The positions of the received hits with the largest count.
MaxPositions ==
    { i \in 1..Len(reduced) :
        \A j \in 1..Len(reduced) : reduced[j].matchCount <= reduced[i].matchCount }

\* The reducer's step replaces the best only by a strictly larger hit.
StrictReplace ==
    best' # best =>
        /\ Len(results) > 0 /\ best' = Head(results)
        /\ Head(results).matchCount > best.matchCount

\* C19: the reducer replaces the current best only by a received hit with a
\* strictly larger matchCount, so at every moment, and at the end, the best
\* is the first, in the order of reception, of the received hits with the
\* largest matchCount; a later hit with the same count does not displace it.
C19_FirstMaxWins ==
    /\ [][StrictReplace]_vars
    /\ [](IF reduced = <<>> THEN best = NoResult
          ELSE best = reduced[Min(MaxPositions)])

\* Reached: the reducer has received two hits with the same, largest count
\* from two files, the run has returned, and the first received of them,
\* here the later one in walk order, is the winner.
C19_Witness ==
    /\ qpc = "done"
    /\ Len(reduced) >= 2
    /\ reduced[1].matchCount = reduced[2].matchCount
    /\ reduced[1].file = "b" /\ reduced[2].file = "a"
    /\ \A j \in 1..Len(reduced) : reduced[j].matchCount <= reduced[1].matchCount
    /\ best = reduced[1]

\* The hits of the corpus: the discovered files with at least one match.
Hits == { n \in Discovered : Reported(n) >= 1 }

\* results is closed in one step, by the closer, when every worker is gone.
QueryCloseStep ==
    /\ queryClosed => queryClosed'
    /\ queryClosed' # queryClosed =>
          /\ qCloser = "wait" /\ qCloser' = "done"
          /\ wg = 0 /\ qWorkers = EmptyBag
          /\ workers >= 1 => fileJobsClosed /\ fileJobs = <<>>

\* C20: with at least one discovered file and W >= 1, under fair scheduling
\* parallelQuery returns, so no interleaving is stuck; results is
\* closed once, by the closer, after the last worker has exited
\* and never holds more than W hits; when the reducer picks the winner it
\* has received the hit of every file with a match exactly once and nothing
\* else.
C20_QueryTerminates ==
    /\ (workers >= 1 /\ Discovered # {}) => <>(qpc = "done")
    /\ [][QueryCloseStep]_vars
    /\ [](workers >= 1 =>
            /\ Len(results) <= workers
            /\ queryClosed => wg = 0 /\ qWorkers = EmptyBag
            /\ qpc = "done" /\ Discovered # {} =>
                 /\ queryClosed /\ results = <<>>
                 /\ Len(reduced) = Cardinality(Hits)
                 /\ \A n \in Hits : \E i \in 1..Len(reduced) :
                       reduced[i] = [file |-> n, matchCount |-> Reported(n)])

\* The same without fairness: with W >= 1 a query that has not returned can
\* take a step.
C20_NoStuckState ==
    workers >= 1 /\ qpc \notin {"idle", "done"} => ENABLED QueryNext

\* Reached: a query with more files with matches than workers has returned
\* after the reducer received every hit.
C20_Witness ==
    /\ qpc = "done"
    /\ workers >= 1
    /\ Cardinality(Hits) > workers
    /\ Len(reduced) = Cardinality(Hits)

====
